---- MODULE Spec2Model ----
(***************************************************************************)
(* A model of Game2048 (src/2048_GAME.py): the 4x4 grid, the score, the    *)
(* timer and the four arrow-key handlers.                                  *)
(*                                                                         *)
(* A grid is a tuple of N rows, each a tuple of N naturals; the source's   *)
(* 0-based index i is the model's index i+1.                               *)
(***************************************************************************)
EXTENDS Integers, Sequences, FiniteSets, TLC

\* game_grid is np.zeros((4, 4)); every loop of the source runs over range(4).
N == 4
\* `for _ in range(3)` in each of the four key handlers.
Passes == 3

\* Bounds of the model.
\* Arrow-key presses explored after the run leaves the recorded play.
MaxKeys == 1
\* Cap on time_elapsed (the timer would count for ever).
MaxTime == 2
\* Input grids of SpecFn hold 0 and the tiles 2^1 .. 2^MaxExp.
MaxExp == 3
\* Applications of a move explored from each input grid of SpecFn.
MaxApply == 1

VARIABLES
    game_grid,      \* self.game_grid
    score,          \* self.score
    time_elapsed,   \* self.time_elapsed
    running,        \* self.running
    bindings,       \* the arrow-key sequences bound on self.master
    timer_pending,  \* a callback of update_timer is scheduled with master.after
    pc,             \* "seed1", "seed2": in __init__; "run": the event loop is idle;
                    \* "after_move": in a key handler, at its call of after_move
    key,            \* the arrow key whose handler ran last ("None": none yet)
    moved,          \* the local flag `moved` of that handler when it returned
    keys,           \* number of handler runs so far
    on_play,        \* the run so far is a prefix of the recorded play (Seeds, Play)
    extra           \* number of key presses since the run left the recorded play,
                    \* the press that left it included

vars == <<game_grid, score, time_elapsed, running, bindings, timer_pending,
          pc, key, moved, keys, on_play, extra>>

Idx == 1..N
Cells == Idx \X Idx
Keys == {"Up", "Down", "Left", "Right"}
\* A function over 1..n as the tuple it is equal to.
AsTuple(f) == f \o <<>>

Put(g, c, v) == [g EXCEPT ![c[1]][c[2]] = v]

RECURSIVE SumSeq(_)
SumSeq(s) == IF s = <<>> THEN 0 ELSE Head(s) + SumSeq(Tail(s))

ZeroRow == AsTuple([j \in Idx |-> 0])
ZeroGrid == AsTuple([i \in Idx |-> ZeroRow])

GridSum(g) == SumSeq([i \in Idx |-> SumSeq(g[i])])
Occupied(g) == Cardinality({c \in Cells : g[c[1]][c[2]] # 0})

(***************************************************************************)
(* move(matrix), lines 76-90, one row at a time.                           *)
(***************************************************************************)
\* row = matrix[i][matrix[i] != 0]  and  row = row[row != 0]
compress(row) == SelectSeq(row, LAMBDA x : x # 0)

\* The body of the loop `for j in range(len(row) - 1)` at index j, when
\* row[j] == row[j + 1]: the new row and what is added to self.score.
\* Mutant of merge_at: the score is updated before the tile is doubled.
merge_at_score_first(row, j) ==
    [row  |-> [row EXCEPT ![j] = 2 * row[j], ![j + 1] = 0],
     gain |-> row[j]]

\* Mutant of merge_at: the tile is not doubled (`row[j] *= 2` is missing).
merge_at_no_double(row, j) ==
    [row  |-> [row EXCEPT ![j + 1] = 0],
     gain |-> row[j]]

\* Mutant of merge_at: `row[j] += 2` in place of `row[j] *= 2`.
merge_at_plus_two(row, j) ==
    [row  |-> [row EXCEPT ![j] = row[j] + 2, ![j + 1] = 0],
     gain |-> row[j] + 2]

\* Mutant of merge_at: the right tile is kept (`row[j + 1] = 0` is missing).
merge_at_keep_right(row, j) ==
    [row  |-> [row EXCEPT ![j] = 2 * row[j]],
     gain |-> 2 * row[j]]

merge_at(row, j) ==
    [row  |-> [row EXCEPT ![j] = 2 * row[j], ![j + 1] = 0],
     gain |-> 2 * row[j]]

\* Mutant of combine: after a merge the row is compacted at once and the new
\* tile is compared again with its right neighbour.
RECURSIVE combine_remerge(_, _, _)
combine_remerge(row, j, gain) ==
    IF j >= Len(row) THEN [row |-> row, gain |-> gain]
    ELSE IF row[j] = row[j + 1]
         THEN LET m == merge_at(row, j)
              IN  combine_remerge(compress(m.row), j, gain + m.gain)
         ELSE combine_remerge(row, j + 1, gain)

\* The loop from index j on (j = 1 is the source's j = 0).
RECURSIVE combine(_, _, _)
combine(row, j, gain) ==
    IF j >= Len(row) THEN [row |-> row, gain |-> gain]
    ELSE IF row[j] = row[j + 1]
         THEN LET m == merge_at(row, j) IN combine(m.row, j + 1, gain + m.gain)
         ELSE combine(row, j + 1, gain)

\* new_matrix[i, :len(row)] = row, new_matrix being zeros.
pad(row) == row \o [j \in 1..(N - Len(row)) |-> 0]

move_row(r) ==
    LET c == combine(compress(r), 1, 0)
    IN  [row |-> pad(compress(c.row)), gain |-> c.gain]

\* The new matrix and the total added to self.score by the call.
move(matrix) ==
    LET rr == AsTuple([i \in Idx |-> move_row(matrix[i])])
    IN  [grid |-> AsTuple([i \in Idx |-> rr[i].row]),
         gain |-> SumSeq([i \in Idx |-> rr[i].gain])]

(***************************************************************************)
(* Orientation: np.rot90 (counter-clockwise) and np.fliplr.                *)
(***************************************************************************)
rot90(g) == AsTuple([i \in Idx |-> AsTuple([j \in Idx |-> g[j][N + 1 - i]])])

RECURSIVE rotate_grid(_, _)
rotate_grid(grid, k) == IF k = 0 THEN grid ELSE rotate_grid(rot90(grid), k - 1)

fliplr(g) == AsTuple([i \in Idx |-> AsTuple([j \in Idx |-> g[i][N + 1 - j]])])

(***************************************************************************)
(* The loop of the key handlers: Passes calls of move, `moved` set when a  *)
(* call returns a grid that differs from the one it was given.             *)
(***************************************************************************)
\* Mutant of one_pass: `moved` is assigned, not set, by each pass, so that it
\* tells only whether the last pass changed the grid.
one_pass_last_only(r) ==
    LET m == move(r.grid)
    IN  [grid  |-> m.grid,
         gain  |-> r.gain + m.gain,
         moved |-> m.grid # r.grid]

one_pass(r) ==
    LET m == move(r.grid)
    IN  [grid  |-> m.grid,
         gain  |-> r.gain + m.gain,
         moved |-> r.moved \/ (m.grid # r.grid)]

RECURSIVE run_passes(_, _)
run_passes(r, n) == IF n = 0 THEN r ELSE run_passes(one_pass(r), n - 1)

\* Mutants of passes: `range(2)` and `range(1)` in place of `range(3)`.
passes_twice(g) ==
    run_passes([grid |-> g, gain |-> 0, moved |-> FALSE], Passes - 1)
passes_once(g) ==
    run_passes([grid |-> g, gain |-> 0, moved |-> FALSE], Passes - 2)

passes(g) == run_passes([grid |-> g, gain |-> 0, moved |-> FALSE], Passes)

\* Each handler up to its `if moved:`: the grid it leaves in self.game_grid,
\* what it added to self.score, and its flag `moved`.
left_passes(g) == passes(g)

right_passes(g) ==
    LET r == passes(fliplr(g)) IN [r EXCEPT !.grid = fliplr(r.grid)]

\* Mutant of up_passes: the grid is rotated back by 90 degrees, not by 270.
up_passes_rot1(g) ==
    LET r == passes(rotate_grid(g, 1)) IN [r EXCEPT !.grid = rotate_grid(r.grid, 1)]

up_passes(g) ==
    LET r == passes(rotate_grid(g, 1)) IN [r EXCEPT !.grid = rotate_grid(r.grid, 3)]

down_passes(g) ==
    LET r == passes(rotate_grid(g, 3)) IN [r EXCEPT !.grid = rotate_grid(r.grid, 1)]

\* master.bind: the handler of each arrow key.
slide(d, g) ==
    CASE d = "Up"    -> up_passes(g)
      [] d = "Down"  -> down_passes(g)
      [] d = "Left"  -> left_passes(g)
      [] d = "Right" -> right_passes(g)

(***************************************************************************)
(* add_random_tile, can_move, game_over, after_move.                       *)
(***************************************************************************)
\* The list comprehension: the empty cells in row-major order.
CellSeq == [n \in 1..(N * N) |-> <<((n - 1) \div N) + 1, ((n - 1) % N) + 1>>]
empty_cells(g) == SelectSeq(CellSeq, LAMBDA c : g[c[1]][c[2]] = 0)

\* random.choice([2, 4])
TileValues == {2, 4}

\* Mutant of add_random_tile: the cell is drawn among all cells.
add_random_tile_any_cell(g) ==
    {Put(g, c, v) : c \in Cells, v \in TileValues}

\* Every grid a call of add_random_tile can leave.
add_random_tile(g) ==
    LET e == empty_cells(g)
    IN  IF e # <<>>
        THEN {Put(g, e[n], v) : n \in 1..Len(e), v \in TileValues}
        ELSE {g}

\* Mutant of can_move: only empty cells are looked for.
can_move_zero_only(g) ==
    \E row \in Idx, col \in Idx : g[row][col] = 0

\* Mutant of can_move: the cell below is not compared.
can_move_rows_only(g) ==
    \E row \in Idx, col \in Idx :
        \/ g[row][col] = 0
        \/ (col < N /\ g[row][col] = g[row][col + 1])

can_move(g) ==
    \E row \in Idx, col \in Idx :
        \/ g[row][col] = 0
        \/ (col < N /\ g[row][col] = g[row][col + 1])
        \/ (row < N /\ g[row][col] = g[row + 1][col])

(***************************************************************************)
(* A recorded play: the two seed tiles of __init__, then sixteen key       *)
(* presses that change the grid, each with the cell and the value that     *)
(* add_random_tile drew.  Its first fourteen presses merge nothing and     *)
(* fill the board, two tiles of 2 ending side by side; the fifteenth       *)
(* merges them on the full board and the sixteenth fills the board again,  *)
(* no two neighbours equal.  Spec explores this play and, from every state *)
(* on it, every run of at most MaxKeys further key presses with every      *)
(* draw.                                                                   *)
(***************************************************************************)
Seeds ==
    << [cell |-> <<1, 1>>, val |-> 2],
       [cell |-> <<4, 3>>, val |-> 2] >>

Play ==
    << [key |-> "Up",   cell |-> <<4, 4>>, val |-> 4],
       [key |-> "Down", cell |-> <<2, 2>>, val |-> 4],
       [key |-> "Down", cell |-> <<1, 3>>, val |-> 4],
       [key |-> "Down", cell |-> <<3, 4>>, val |-> 2],
       [key |-> "Left", cell |-> <<1, 3>>, val |-> 2],
       [key |-> "Left", cell |-> <<2, 4>>, val |-> 2],
       [key |-> "Down", cell |-> <<1, 1>>, val |-> 4],
       [key |-> "Up",   cell |-> <<3, 4>>, val |-> 2],
       [key |-> "Down", cell |-> <<2, 2>>, val |-> 4],
       [key |-> "Up",   cell |-> <<4, 4>>, val |-> 4],
       [key |-> "Down", cell |-> <<1, 2>>, val |-> 2],
       [key |-> "Up",   cell |-> <<3, 3>>, val |-> 4],
       [key |-> "Up",   cell |-> <<4, 3>>, val |-> 2],
       [key |-> "Down", cell |-> <<1, 3>>, val |-> 2],
       [key |-> "Up",   cell |-> <<4, 3>>, val |-> 4],
       [key |-> "Up",   cell |-> <<4, 3>>, val |-> 2] >>

\* The draw of add_random_tile that turned grid g into grid h is draw p.
Drew(p, g, h) == h = Put(g, p.cell, p.val)

\* A press of key d is the next press of Play.
Recorded(d) ==
    /\ on_play
    /\ keys < Len(Play)
    /\ Play[keys + 1].key = d

(***************************************************************************)
(* __init__, lines 12-37, and update_timer.                                *)
(***************************************************************************)
\* Line 13: the first add_random_tile() on the grid of zeros.
init_seed1 ==
    /\ pc = "seed1"
    /\ game_grid' \in add_random_tile(game_grid)
    /\ on_play' = Drew(Seeds[1], game_grid, game_grid')
    /\ pc' = "seed2"
    /\ UNCHANGED <<score, time_elapsed, running, bindings, timer_pending,
                   key, moved, keys, extra>>

\* Lines 14-37: the second add_random_tile(), score = 0, time_elapsed = 0,
\* running = True, the first call of update_timer() (which counts 1 and
\* schedules itself) and the four bind calls.
init_rest ==
    /\ pc = "seed2"
    /\ game_grid' \in add_random_tile(game_grid)
    /\ on_play' = (on_play /\ Drew(Seeds[2], game_grid, game_grid'))
    /\ score' = 0
    /\ time_elapsed' = 1
    /\ running' = TRUE
    /\ timer_pending' = TRUE
    /\ bindings' = Keys
    /\ pc' = "run"
    /\ UNCHANGED <<key, moved, keys, extra>>

\* Mutant of update_timer: a tick also adds a point to self.score.
update_timer_scores ==
    /\ pc = "run"
    /\ timer_pending
    /\ IF running
       THEN /\ time_elapsed < MaxTime
            /\ time_elapsed' = time_elapsed + 1
            /\ score' = score + 1
            /\ timer_pending' = TRUE
       ELSE /\ timer_pending' = FALSE
            /\ UNCHANGED <<time_elapsed, score>>
    /\ UNCHANGED <<game_grid, running, bindings, pc, key, moved, keys,
                   on_play, extra>>

\* Mutant of update_timer: `if self.running:` is missing.
update_timer_always ==
    /\ pc = "run"
    /\ timer_pending
    /\ time_elapsed < MaxTime
    /\ time_elapsed' = time_elapsed + 1
    /\ timer_pending' = TRUE
    /\ UNCHANGED <<game_grid, score, running, bindings, pc, key, moved, keys,
                   on_play, extra>>

\* A scheduled callback of update_timer fires.
update_timer ==
    /\ pc = "run"
    /\ timer_pending
    /\ IF running
       THEN /\ time_elapsed < MaxTime
            /\ time_elapsed' = time_elapsed + 1
            /\ timer_pending' = TRUE
       ELSE /\ timer_pending' = FALSE
            /\ UNCHANGED time_elapsed
    /\ UNCHANGED <<game_grid, score, running, bindings, pc, key, moved, keys,
                   on_play, extra>>

(***************************************************************************)
(* The arrow-key handlers, run by the event loop while the key is bound.   *)
(***************************************************************************)
\* The handler of key d up to its `if moved:`; it goes on to after_move when
\* moved is set, and returns otherwise.
press(d) ==
    /\ pc = "run"
    /\ \E r \in {slide(d, game_grid)} :
          /\ game_grid' = r.grid
          /\ score' = score + r.gain
          /\ moved' = r.moved
          /\ pc' = IF r.moved THEN "after_move" ELSE "run"
    /\ key' = d
    /\ keys' = keys + 1
    /\ IF Recorded(d)
       THEN UNCHANGED <<on_play, extra>>
       ELSE /\ extra < MaxKeys
            /\ extra' = extra + 1
            /\ on_play' = FALSE
    /\ UNCHANGED <<time_elapsed, running, bindings, timer_pending>>

\* Mutant of game_over: the arrow keys stay bound.
game_over_no_unbind ==
    /\ running' = FALSE
    /\ UNCHANGED bindings

game_over ==
    /\ running' = FALSE
    /\ bindings' = {}

\* after_move, called by the handler that is running.
after_move ==
    /\ pc = "after_move"
    /\ game_grid' \in add_random_tile(game_grid)
    /\ IF ~can_move(game_grid')
       THEN game_over
       ELSE UNCHANGED <<running, bindings>>
    /\ pc' = "run"
    /\ IF on_play /\ ~Drew(Play[keys], game_grid, game_grid')
       THEN /\ extra < MaxKeys
            /\ extra' = extra + 1
            /\ on_play' = FALSE
       ELSE UNCHANGED <<on_play, extra>>
    /\ UNCHANGED <<score, time_elapsed, timer_pending, key, moved, keys>>

move_up ==
    /\ "Up" \in bindings
    /\ press("Up")

move_down ==
    /\ "Down" \in bindings
    /\ press("Down")

move_left ==
    /\ "Left" \in bindings
    /\ press("Left")

move_right ==
    /\ "Right" \in bindings
    /\ press("Right")

Init ==
    /\ pc = "seed1"
    /\ game_grid = ZeroGrid
    /\ score = 0
    /\ time_elapsed = 0
    /\ running = FALSE
    /\ bindings = {}
    /\ timer_pending = FALSE
    /\ key = "None"
    /\ moved = FALSE
    /\ keys = 0
    /\ on_play = TRUE
    /\ extra = 0

Next ==
    \/ init_seed1
    \/ init_rest
    \/ update_timer
    \/ move_up
    \/ move_down
    \/ move_left
    \/ move_right
    \/ after_move

Spec == Init /\ [][Next]_vars

(***************************************************************************)
(* SpecFn: the handlers' move logic as a function of the grid.  The input  *)
(* grids are one arbitrary row over the tiles 0, 2 .. 2^MaxExp above three *)
(* fixed rows (empty, or alternating so that no two neighbours are equal), *)
(* and the same grids rotated (so that the arbitrary line is a column);    *)
(* each action runs one handler up to its `if moved:`, so that no tile is  *)
(* spawned between two applications.                                       *)
(***************************************************************************)
RECURSIVE Pow2(_)
Pow2(e) == IF e = 0 THEN 1 ELSE 2 * Pow2(e - 1)

Tiles == {0} \cup {Pow2(e) : e \in 1..MaxExp}
AllRows == [Idx -> Tiles]
Alt1 == <<2, 4, 2, 4>>
Alt2 == <<4, 2, 4, 2>>
Fills ==
    { <<ZeroRow, ZeroRow, ZeroRow>>,
      <<Alt2, Alt1, Alt2>> }
InputGrids ==
    LET base == {<<r>> \o f : r \in AllRows, f \in Fills}
    IN  base \cup {rot90(g) : g \in base}

InitFn ==
    /\ pc = "run"
    /\ game_grid \in InputGrids
    /\ score = 0
    /\ time_elapsed = 1
    /\ running = TRUE
    /\ bindings = Keys
    /\ timer_pending = FALSE
    /\ key = "None"
    /\ moved = FALSE
    /\ keys = 0
    /\ on_play = FALSE
    /\ extra = 0

\* The handler of key d up to its `if moved:`.
apply(d) ==
    /\ keys < MaxApply
    /\ LET r == slide(d, game_grid)
       IN  /\ game_grid' = r.grid
           /\ score' = score + r.gain
           /\ moved' = r.moved
    /\ key' = d
    /\ keys' = keys + 1
    /\ UNCHANGED <<time_elapsed, running, bindings, timer_pending, pc,
                   on_play, extra>>

apply_up ==
    /\ "Up" \in bindings
    /\ apply("Up")

apply_down ==
    /\ "Down" \in bindings
    /\ apply("Down")

apply_left ==
    /\ "Left" \in bindings
    /\ apply("Left")

apply_right ==
    /\ "Right" \in bindings
    /\ apply("Right")

NextFn ==
    \/ apply_up
    \/ apply_down
    \/ apply_left
    \/ apply_right

SpecFn == InitFn /\ [][NextFn]_vars

(***************************************************************************)
(* SpecMove: one call of move(matrix) on each input grid of SpecFn, the    *)
(* result stored in self.game_grid as the handlers' loop body does.        *)
(***************************************************************************)
call_move ==
    /\ keys < MaxApply
    /\ \E m \in {move(game_grid)} :
          /\ game_grid' = m.grid
          /\ score' = score + m.gain
          /\ moved' = (m.grid # game_grid)
    /\ keys' = keys + 1
    /\ UNCHANGED <<time_elapsed, running, bindings, timer_pending, pc, key,
                   on_play, extra>>

NextMove == call_move

SpecMove == InitFn /\ [][NextMove]_vars

(***************************************************************************)
(* Properties of the move logic, checked under SpecFn.                     *)
(***************************************************************************)
Reverse(row) == AsTuple([j \in Idx |-> row[N + 1 - j]])
RowMirror(g) == AsTuple([i \in Idx |-> Reverse(g[i])])
Transpose(g) == AsTuple([i \in Idx |-> AsTuple([j \in Idx |-> g[j][i]])])
FlipUD(g) == AsTuple([i \in Idx |-> g[N + 1 - i]])
Column(g, j) == AsTuple([i \in Idx |-> g[i][j]])

\* The three compact-left passes on one row.
ThreeCompact(row) == move_row(move_row(move_row(row).row).row).row

\* No tile of the line has an empty cell before it.
Packed(line) == \A j \in 1..(N - 1) : line[j] = 0 => line[j + 1] = 0

\* The lines of g along the direction of key d, each read from the edge the
\* tiles move to.
Lines(d, g) ==
    CASE d = "Left"  -> {g[i] : i \in Idx}
      [] d = "Right" -> {Reverse(g[i]) : i \in Idx}
      [] d = "Up"    -> {Column(g, j) : j \in Idx}
      [] d = "Down"  -> {Reverse(Column(g, j)) : j \in Idx}

\* C1: each key handler moves the tiles toward its own edge and restores the
\* orientation of the grid: Left is the three compact-left passes on each
\* row; Right is Left between two mirrorings of the rows; Up is Left between
\* two transpositions; Down is Up between two vertical mirrorings; and the
\* tiles end up packed against the handler's edge.
C1_Directions ==
    LET g == game_grid
        L(x) == left_passes(x).grid
    IN  /\ L(g) = AsTuple([i \in Idx |-> ThreeCompact(g[i])])
        /\ right_passes(g).grid = RowMirror(L(RowMirror(g)))
        /\ up_passes(g).grid = Transpose(L(Transpose(g)))
        /\ down_passes(g).grid = FlipUD(up_passes(FlipUD(g)).grid)
        /\ \A d \in Keys : \A line \in Lines(d, slide(d, g).grid) : Packed(line)

\* A Down move has changed a grid and merged tiles of it.
C1_Witness ==
    /\ keys = 1
    /\ key = "Down"
    /\ moved
    /\ score > 0

\* C2: a move applied twice in succession, no tile spawned in between, is
\* idempotent: the second application changes neither grid nor score and
\* reports moved = False.
C2_Idempotent ==
    \A d \in Keys :
        LET first  == slide(d, game_grid)
            second == slide(d, first.grid)
        IN  /\ second.grid = first.grid
            /\ second.gain = 0
            /\ ~second.moved

\* A move has merged tiles, and the same move applied again changes nothing.
C2_Witness ==
    /\ keys = 1
    /\ moved
    /\ score > 0
    /\ ~slide(key, game_grid).moved

\* One line is settled: tiles first, then empty cells, and no two adjacent
\* tiles equal.
Settled(line) ==
    \A j \in 1..(N - 1) :
        /\ line[j] = 0 => line[j + 1] = 0
        /\ line[j] # 0 => line[j] # line[j + 1]

\* C3: the three passes of a move cascade the merges to completion: every
\* line along the move direction, read from the destination edge, has its
\* tiles before its empty cells and no two adjacent tiles equal; a row
\* [2,2,2,2] becomes [8,0,0,0] under Left.
C3_Cascade ==
    /\ \A d \in Keys : \A line \in Lines(d, slide(d, game_grid).grid) : Settled(line)
    /\ \A i \in Idx :
          game_grid[i] = <<2, 2, 2, 2>> =>
              left_passes(game_grid).grid[i] = <<8, 0, 0, 0>>

\* Left has been applied to the row [2,2,2,2] above three empty rows.
C3_Witness ==
    /\ keys = 1
    /\ key = "Left"
    /\ moved
    /\ game_grid = <<<<8, 0, 0, 0>>, ZeroRow, ZeroRow, ZeroRow>>
    /\ score = 16

\* Row i of g is [2,2,2,2] and the other rows merge nothing under Left.
OnlyRowOfTwos(g, i) ==
    /\ g[i] = <<2, 2, 2, 2>>
    /\ left_passes([g EXCEPT ![i] = ZeroRow]).gain = 0

\* C4 as stated: one Left key press on a row [2,2,2,2], the other rows
\* merging nothing, adds exactly 4 + 8 = 12 to the score.
C4_Original ==
    [][\A i \in Idx :
          (OnlyRowOfTwos(game_grid, i) /\ key' = "Left" /\ keys' = keys + 1)
              => score' = score + 12]_vars

\* C4 amended: one Left key press on a row [2,2,2,2], the other rows merging
\* nothing, adds exactly 4 + 4 + 8 = 16 to the score (two tiles of 4 in the
\* first pass, one tile of 8 in the second).
C4_ScoreOfTwos ==
    [][\A i \in Idx :
          (OnlyRowOfTwos(game_grid, i) /\ key' = "Left" /\ keys' = keys + 1)
              => score' = score + 16]_vars

\* Left has been applied to a full board whose first row was [2,2,2,2] and
\* whose other rows cannot merge.
C4_Witness ==
    /\ keys = 1
    /\ key = "Left"
    /\ game_grid = <<<<8, 0, 0, 0>>, Alt2, Alt1, Alt2>>
    /\ score = 16

\* C6: the sum of all tile values after a move (the three passes, no spawn)
\* is greater than or equal to the sum before it.
C6_SumNotLess == [][GridSum(game_grid') >= GridSum(game_grid)]_vars

\* A move has merged tiles of a grid that holds more than four tiles.
C6_Witness ==
    /\ keys = 1
    /\ moved
    /\ score >= 8
    /\ Occupied(game_grid) > 4

\* Two cells are neighbours in a row or in a column.
Adjacent(a, b) ==
    \/ (a[1] = b[1] /\ (a[2] = b[2] + 1 \/ b[2] = a[2] + 1))
    \/ (a[2] = b[2] /\ (a[1] = b[1] + 1 \/ b[1] = a[1] + 1))

\* Status Over: every cell is a tile and no two neighbours are equal.
IsOver(g) ==
    /\ \A c \in Cells : g[c[1]][c[2]] # 0
    /\ \A a \in Cells, b \in Cells :
          Adjacent(a, b) => g[a[1]][a[2]] # g[b[1]][b[2]]

Checkerboard == <<Alt1, Alt2, Alt1, Alt2>>

\* C8: can_move() is False exactly when every cell is non-zero and no two
\* horizontally or vertically adjacent cells are equal; the checkerboard of
\* 2 and 4 is Over, and Active with any one cell set to 0.
C8_Status ==
    /\ can_move(game_grid) <=> ~IsOver(game_grid)
    /\ game_grid = Checkerboard =>
          /\ ~can_move(game_grid)
          /\ \A c \in Cells : can_move(Put(game_grid, c, 0))

\* A move has been tried on the checkerboard and has changed nothing.
C8_Witness ==
    /\ keys = 1
    /\ ~moved
    /\ game_grid = Checkerboard

(***************************************************************************)
(* Properties of the game, checked under Spec.                             *)
(***************************************************************************)
Count(g, v) == Cardinality({c \in Cells : g[c[1]][c[2]] = v})

\* The total value of the tiles created by merges on the way from grid g to
\* grid h, from the tile counts alone: if m(v) pairs of tiles v were merged,
\* then h holds Count(g, v) - 2 m(v) + m(v / 2) tiles v.  `carry` is m(v / 2).
RECURSIVE CreatedFrom(_, _, _, _)
CreatedFrom(g, h, v, carry) ==
    IF v > GridSum(g) THEN 0
    ELSE LET m == (Count(g, v) + carry - Count(h, v)) \div 2
         IN  2 * v * m + CreatedFrom(g, h, 2 * v, m)

Created(g, h) == CreatedFrom(g, h, 2, 0)

\* C5: the score is 0 after construction; a key press adds to it the total
\* value of the tiles its merges created (all passes, all rows), which is
\* >= 0; no step (key press, timer tick) decreases it.
C5_ScoreDelta ==
    [][/\ pc \in {"seed1", "seed2"} => score' = 0
       /\ score' >= score
       /\ keys' = keys + 1 => score' - score = Created(game_grid, game_grid')
       /\ keys' = keys => score' = score]_vars

\* A key press has merged into a tile of 8 or more and the timer has ticked.
C5_Witness ==
    /\ pc = "run"
    /\ keys >= 1
    /\ moved
    /\ score >= 8
    /\ time_elapsed >= 2

RECURSIVE IsPowerOfTwo(_)
IsPowerOfTwo(x) ==
    \/ x = 2
    \/ (x > 2 /\ x % 2 = 0 /\ IsPowerOfTwo(x \div 2))

\* C7: in every state reachable from construction by arrow-key presses and
\* timer ticks, every cell of the grid is 0 or a power of two >= 2.
C7_PowersOfTwo ==
    \A c \in Cells :
        game_grid[c[1]][c[2]] = 0 \/ IsPowerOfTwo(game_grid[c[1]][c[2]])

\* A merge of two merged tiles has made a tile of 8.
C7_Witness ==
    /\ pc = "run"
    /\ \E c \in Cells : game_grid[c[1]][c[2]] >= 8

\* C9: on a key press after_move runs, and spawns a tile, if and only if the
\* grid after the three passes differs from the grid before the press; when
\* it does not differ the handler returns with grid, score, running and the
\* key bindings as they were.
C9_SpawnIffChanged ==
    [][/\ keys' = keys + 1 =>
             IF game_grid' # game_grid
             THEN pc' = "after_move"
             ELSE /\ pc' = "run"
                  /\ score' = score
                  /\ running' = running
                  /\ bindings' = bindings
       /\ pc = "after_move" =>
             (pc' = "run" /\ Occupied(game_grid') = Occupied(game_grid) + 1)]_vars

\* A key press has left the grid as it was: no tile was spawned.
C9_Witness ==
    /\ pc = "run"
    /\ keys >= 1
    /\ ~moved
    /\ Occupied(game_grid) = keys + 1

\* Grid h is grid g with a 2 or a 4 written into one cell that was 0.
SpawnedOne(g, h) ==
    /\ Occupied(h) = Occupied(g) + 1
    /\ \E c \in Cells :
          /\ g[c[1]][c[2]] = 0
          /\ h[c[1]][c[2]] \in {2, 4}
          /\ h = Put(g, c, h[c[1]][c[2]])

\* C10: every call of add_random_tile (the two of __init__, the one of
\* after_move) adds exactly one tile, a 2 or a 4 in a cell that was 0, and
\* leaves the other cells and the score as they were.
C10_SpawnOneTile ==
    [][(pc \in {"seed1", "seed2", "after_move"}) =>
          (SpawnedOne(game_grid, game_grid') /\ score' = score)]_vars

\* The spawn after a key press has filled the last empty cell.
C10_Witness ==
    /\ pc = "run"
    /\ keys >= 1
    /\ moved
    /\ Occupied(game_grid) = N * N

\* C11: add_random_tile is never called on a grid without an empty cell: at
\* the two calls of __init__ and whenever a key handler reaches after_move,
\* the grid holds at least one cell that is 0.
C11_SpawnHasRoom ==
    (pc \in {"seed1", "seed2", "after_move"}) => empty_cells(game_grid) # <<>>

\* The fifteenth press of the recorded play, made on a full board, is at its
\* call of after_move: the merge has emptied two cells.
C11_Witness ==
    /\ pc = "after_move"
    /\ on_play
    /\ keys = 15
    /\ Occupied(game_grid) = N * N - 2

\* The game is Over: constructed, idle, and running is False.
Over == pc = "run" /\ ~running

\* C12: game over is terminal.  running goes from True to False only in
\* after_move, after a press that changed the grid and a spawn, when
\* can_move() is False on the new grid, and the arrow keys are unbound with
\* it; once the game is Over, running stays False, the keys stay unbound, no
\* key handler runs, and grid and score do not change.
C12_OverTerminal ==
    [][/\ (running /\ ~running') =>
             /\ pc = "after_move"
             /\ moved
             /\ SpawnedOne(game_grid, game_grid')
             /\ ~can_move(game_grid')
             /\ bindings' = {}
       /\ Over =>
             /\ Over'
             /\ bindings' = {}
             /\ keys' = keys
             /\ game_grid' = game_grid
             /\ score' = score]_vars

\* The game is Over at the end of the recorded play, and a step (the timer
\* callback that was pending) has been taken since.
C12_Witness ==
    /\ Over
    /\ on_play
    /\ keys = Len(Play)
    /\ ~timer_pending

\* Grid g holds exactly two tiles, each a 2 or a 4, and 14 cells that are 0.
TwoSeeds(g) ==
    /\ Occupied(g) = 2
    /\ Count(g, 0) = N * N - 2
    /\ \A c \in Cells : g[c[1]][c[2]] \in {0, 2, 4}

C14_TimerStops ==
    [][Over =>
          /\ time_elapsed' = time_elapsed
          /\ ~timer_pending']_vars

\* The game is Over, the pending callback has fired without counting
\* (the cap MaxTime was not what stopped it), and none is scheduled.
C14_Witness ==
    /\ Over
    /\ ~timer_pending
    /\ time_elapsed < MaxTime

\* The tiles of a row in their order, the empty cells left out.
RECURSIVE NonZeros(_)
NonZeros(row) ==
    IF row = <<>> THEN <<>>
    ELSE IF Head(row) = 0 THEN NonZeros(Tail(row))
         ELSE <<Head(row)>> \o NonZeros(Tail(row))

\* A scan from the left that replaces each pair of equal neighbours by one
\* tile of twice the value and goes on after the pair.
RECURSIVE MergePairs(_)
MergePairs(s) ==
    IF Len(s) < 2 THEN s
    ELSE IF s[1] = s[2] THEN <<2 * s[1]>> \o MergePairs(Tail(Tail(s)))
         ELSE <<s[1]>> \o MergePairs(Tail(s))

RECURSIVE ZeroPad(_)
ZeroPad(s) == IF Len(s) >= N THEN s ELSE ZeroPad(Append(s, 0))

\* C15: one pass of move() on a row removes the zeros keeping the order of
\* the tiles, merges equal neighbours from the left into the left cell
\* (doubled), never merges a tile made in this pass again, and pads the row
\* with zeros: [2,2,4,0] becomes [4,4,0,0], [2,2,2,0] becomes [4,2,0,0] and
\* [2,2,2,2] becomes [4,4,0,0].
C15_OnePass ==
    [][\A i \in Idx :
          /\ game_grid'[i] = ZeroPad(MergePairs(NonZeros(game_grid[i])))
          /\ game_grid[i] = <<2, 2, 4, 0>> => game_grid'[i] = <<4, 4, 0, 0>>
          /\ game_grid[i] = <<2, 2, 2, 0>> => game_grid'[i] = <<4, 2, 0, 0>>
          /\ game_grid[i] = <<2, 2, 2, 2>> => game_grid'[i] = <<4, 4, 0, 0>>]_vars

\* One pass has turned a row [2,2,2,2] into [4,4,0,0]: two merges, and the
\* two tiles of 4 they made are left side by side.
C15_Witness ==
    /\ keys = 1
    /\ moved
    /\ game_grid[1] = <<4, 4, 0, 0>>
    /\ score = 8

Full(g) == Occupied(g) = N * N

NoEqualNeighbours(g) ==
    \A a \in Cells, b \in Cells :
        Adjacent(a, b) => g[a[1]][a[2]] # g[b[1]][b[2]]

\* C16 as stated: whenever a key press (a changed move and its spawn) leaves
\* the board full, no two horizontally or vertically adjacent cells are
\* equal and can_move() is False.
C16_Original ==
    [][(pc = "after_move" /\ Full(game_grid')) =>
          /\ NoEqualNeighbours(game_grid')
          /\ ~can_move(game_grid')]_vars

\* C16 amended: whenever a key press leaves the board full, can_move() is
\* False exactly when no two adjacent cells are equal, and the game is then
\* Over; when two adjacent cells are equal the game stays Active with the
\* keys bound, and a later key press that changes the full board leaves an
\* empty cell for its spawn.
C16_FullBoard ==
    [][/\ (pc = "after_move" /\ Full(game_grid')) =>
             /\ ~can_move(game_grid') <=> NoEqualNeighbours(game_grid')
             /\ running' <=> ~NoEqualNeighbours(game_grid')
             /\ bindings' = IF NoEqualNeighbours(game_grid') THEN {} ELSE Keys
       /\ (keys' = keys + 1 /\ Full(game_grid) /\ game_grid' # game_grid) =>
             ~Full(game_grid')]_vars

\* A key press has left the board full with two equal neighbours, the game
\* is still Active, and the next press, on the full board, has merged them.
C16_Witness ==
    /\ pc = "run"
    /\ running
    /\ on_play
    /\ keys = 15
    /\ moved
    /\ score = 12
    /\ Occupied(game_grid) = N * N - 1

\* C17: a timer tick changes neither the grid, nor the score, nor the
\* Active/Over status (running, the key bindings), nor which handler step
\* comes next: every step of the constructed game that is not a step of a
\* key handler leaves them as they are, so that the key presses of a run
\* give the same grid, score and status with and without the ticks between
\* them.
C17_TickFrame ==
    [][(pc = "run" /\ keys' = keys) =>
          /\ game_grid' = game_grid
          /\ score' = score
          /\ running' = running
          /\ bindings' = bindings
          /\ pc' = pc
          /\ on_play' = on_play
          /\ extra' = extra]_vars

\* The timer has ticked up to MaxTime somewhere along the recorded play,
\* and the play has ended as it does without ticks: Over, with score 12.
C17_Witness ==
    /\ pc = "run"
    /\ on_play
    /\ keys = Len(Play)
    /\ time_elapsed = MaxTime
    /\ ~running
    /\ score = 12

\* Some arrow key's handler would change grid g.
SomeKeyChanges(g) == \E d \in Keys : slide(d, g).grid # g

\* C18: game-over detection agrees with the move logic: on a grid with at
\* least one tile, can_move() is True if and only if one of the four moves
\* would change the grid; so whenever the game is Active some arrow key
\* changes the grid, and when it is Over none does.
C18_CanMoveAgrees ==
    /\ GridSum(game_grid) > 0 =>
          (can_move(game_grid) <=> SomeKeyChanges(game_grid))
    /\ (pc = "run" /\ running) => SomeKeyChanges(game_grid)
    /\ Over => ~SomeKeyChanges(game_grid)

\* The game is Active on a full board, where only a merge can change the
\* grid.
C18_Witness ==
    /\ pc = "run"
    /\ running
    /\ keys >= 1
    /\ Full(game_grid)
    /\ SomeKeyChanges(game_grid)

\* C19: the sum of the tiles is a progress measure: the three passes of a
\* key press leave it exactly as it was (whether or not they change the
\* grid), the spawn that follows a changing press adds exactly 2 or 4, and
\* a timer tick leaves it alone; so a press that changes the grid raises
\* the sum by 2 or 4 and a press that does not leaves it unchanged.
C19_SumProgress ==
    [][/\ keys' = keys + 1 =>
             /\ GridSum(game_grid') = GridSum(game_grid)
             /\ pc' = "run" => game_grid' = game_grid
       /\ pc = "after_move" =>
             GridSum(game_grid') - GridSum(game_grid) \in {2, 4}
       /\ (pc = "run" /\ keys' = keys) =>
             GridSum(game_grid') = GridSum(game_grid)]_vars

\* The values drawn by the first n presses of the recorded play.
DrawnBy(n) == SumSeq([k \in 1..n |-> Play[k].val])

\* After the fifteenth press of the recorded play, which merged three tiles
\* into a tile of 8, the sum of the tiles is the sum of all values drawn.
C19_Witness ==
    /\ pc = "run"
    /\ on_play
    /\ keys = 15
    /\ score > 0
    /\ GridSum(game_grid) = Seeds[1].val + Seeds[2].val + DrawnBy(15)

====
